---- MODULE Spec2Model ----
(***************************************************************************)
(* A model of src/dbg/reference.cpp: RefFind resolves a scope (one memory  *)
(* region, one module, every loaded module) into byte ranges and           *)
(* RefFindInRange sweeps each range with the instruction decoder, calling  *)
(* the caller's predicate on every decoded instruction and reporting       *)
(* progress to the GUI.                                                    *)
(*                                                                         *)
(* The debuggee, the module list, the decoder and the predicate are the    *)
(* environment.  Memory bytes are opcodes of a small instruction set: byte *)
(* 0 does not decode, any other byte b starts an instruction of b bytes.   *)
(***************************************************************************)
EXTENDS Integers, Sequences, FiniteSets, TLC

(***************************************************************************)
(* Bounds of the model.                                                    *)
(***************************************************************************)
\* The longest module list ModGetList returns.
MaxMods == 3
\* The largest explicit Size argument of a region-scope request.
MaxSize == 3

(***************************************************************************)
(* Constants of the program.                                               *)
(***************************************************************************)
\* reference.cpp:206, the progress period 0x1000.
ProgressPeriod == 4096
\* reference.cpp:216, the decoder's lookahead.
MAX_DISASM_BUFFER == 16
\* duint, the unsigned machine word of reference.cpp:12 and :42.  The word is
\* modelled 31 bits wide (the widest the model checker's integers hold): the
\* program only uses that a wrapped difference is larger than every size.
DuintMax == 2147483647
\* reference.cpp:216, the cast (int): 2^16, half the bits of an int.  A word
\* wider than the model checker's integers is held as top * 2^32 + hi * 2^16
\* + lo, with hi and lo below IntHalf.
IntHalf == 65536

CURRENT_REGION == "CURRENT_REGION"
CURRENT_MODULE == "CURRENT_MODULE"
ALL_MODULES    == "ALL_MODULES"

Min(a, b) == IF a <= b THEN a ELSE b

\* Unsigned subtraction a - b on duint, wrapping below zero.
DuintSub(a, b) == IF a >= b THEN a - b ELSE (DuintMax - (b - a)) + 1

(***************************************************************************)
(* The environment: the debuggee's memory map and its images.              *)
(***************************************************************************)
\* The memory regions MemFindBaseAddr knows: two small adjacent pages and a
\* region longer than one progress period.
Regions ==
    { [base |-> 16,   size |-> 2],
      [base |-> 18,   size |-> 1],
      [base |-> 4096, size |-> 4544] }

\* The images ModGetList may list.  "ghost" is listed but its memory is not
\* mapped, so reading it fails.
Modules ==
    { [name |-> "a",     base |-> 16,   size |-> 2],
      [name |-> "b",     base |-> 18,   size |-> 1],
      [name |-> "ghost", base |-> 24,   size |-> 1],
      [name |-> "big",   base |-> 4096, size |-> 4544] }

\* The addresses whose bytes the debuggee may hold any opcode in.
SmallAddrs == 16..18
\* The opcodes of those bytes.
Opcodes == {0, 1, 2}
\* The addresses a request may name: unmapped ones, every small byte, the
\* unmapped image, and the large region.
Addresses == {15, 16, 17, 18, 24, 4096, 4097}

\* The sizes a region-scope request may pass: 0 (the whole region), a few
\* bytes, or the size of a whole region.
Sizes == (0..MaxSize) \cup {r.size : r \in Regions}

InRange(a, base, size) == base <= a /\ a < base + size

Mapped(a) == \E r \in Regions : InRange(a, r.base, r.size)

\* The byte at address a of memory image m (a copy of the small bytes); the
\* large region holds 16-byte instructions back to back.
MemByte(m, a) ==
    IF a \in DOMAIN m THEN m[a]
    ELSE IF (a - 4096) % 16 = 0 THEN 16 ELSE 0

\* MemFindBaseAddr(Address, &regionSize, true): the region holding a, or
\* base 0 and size 0.
MemFindBaseAddr(a) ==
    IF \E r \in Regions : InRange(a, r.base, r.size)
    THEN CHOOSE r \in Regions : InRange(a, r.base, r.size)
    ELSE [base |-> 0, size |-> 0]

\* MemRead(scanStart, data(), scanSize): succeeds when every byte is mapped
\* (a read of no bytes succeeds).
MemRead(start, size) == \A a \in start..(start + size - 1) : Mapped(a)

\* ModInfoFromAddr(Address) over the loaded modules ml; <<>> stands for NULL.
ModInfoFromAddr(ml, a) ==
    LET hit == {k \in 1..Len(ml) : InRange(a, ml[k].base, ml[k].size)}
    IN  IF hit = {} THEN <<>>
        ELSE <<ml[CHOOSE k \in hit : \A j \in hit : k <= j]>>

\* The module lists ModGetList may return: distinct images in any order.
ModLists ==
    UNION { {s \in [1..n -> Modules] : \A j, k \in 1..n : j # k => s[j] # s[k]}
            : n \in 0..MaxMods }

\* The loaded modules seen by a module-scope request for address a.
ModListsFor(a) ==
    {<<>>} \cup {<<m>> : m \in {x \in Modules : InRange(a, x.base, x.size)}}

Perms(s) ==
    {[k \in 1..Len(s) |-> s[p[k]]] :
        p \in {q \in [1..Len(s) -> 1..Len(s)] :
                 \A j, k \in 1..Len(s) : j # k => q[j] # q[k]}}

(***************************************************************************)
(* The decoder and the predicate.                                          *)
(***************************************************************************)
\* cp.Disassemble(addr, data() + i, disasmMaxSize): the length of the
\* instruction starting with byte b given maxSize bytes, 0 when none decodes.
Disassemble(b, maxSize) == IF b >= 1 /\ b <= maxSize THEN b ELSE 0

\* Callback(&cp, &basicinfo, &refInfo): the caller's predicate; this one
\* matches every instruction but the two-byte one.
Callback(b) == b # 2

(***************************************************************************)
(* Single-precision arithmetic, as (float) casts and float operators       *)
(* compute it: a value is m * 2^e with m = 0 or 2^23 <= m < 2^24, results  *)
(* are rounded to nearest, ties to even.                                   *)
(***************************************************************************)
\* Each operator binds its arguments to their values once (v ranges over a
\* one-element set), so that an argument is computed once however often the
\* body uses it.
RECURSIVE BitLen(_)
BitLen(n) ==
    CHOOSE r \in {IF v = 0 THEN 0 ELSE 1 + BitLen(v \div 2) : v \in {n}} : TRUE

F32Zero == [m |-> 0, e |-> 0]

\* The float nearest to (n + f) * 2^e, where 0 <= f < 1 and sticky says f > 0.
F32Round(n, e, sticky) ==
    CHOOSE res \in
      { IF nv = 0 THEN F32Zero
        ELSE IF len <= 24
             THEN [m |-> nv * 2^(24 - len), e |-> ev - (24 - len)]
             ELSE LET s    == len - 24
                      q    == nv \div 2^s
                      r    == nv % 2^s
                      half == 2^(s - 1)
                      up   == \/ r > half
                              \/ r = half /\ (sticky \/ q % 2 = 1)
                      q1   == IF up THEN q + 1 ELSE q
                  IN  IF q1 = 2^24 THEN [m |-> 2^23, e |-> ev + s + 1]
                      ELSE [m |-> q1, e |-> ev + s]
        : nv \in {n}, ev \in {e}, len \in {BitLen(n)} } : TRUE

\* (float)n
F32FromInt(n) == F32Round(n, 0, FALSE)

RECURSIVE F32DivBits(_, _, _, _)
F32DivBits(rem, d, q, k) ==
    CHOOSE res \in
      { IF k = 0 THEN <<qv, rv>>
        ELSE IF 2 * rv >= dv
             THEN F32DivBits(2 * rv - dv, dv, 2 * qv + 1, k - 1)
             ELSE F32DivBits(2 * rv, dv, 2 * qv, k - 1)
        : rv \in {rem}, dv \in {d}, qv \in {q} } : TRUE

\* a / b
F32Div(a, b) ==
    CHOOSE res \in
      { IF av.m = 0 THEN F32Zero
        ELSE LET qr == F32DivBits(av.m % bv.m, bv.m, av.m \div bv.m, 26)
             IN  F32Round(qr[1], av.e - bv.e - 26, qr[2] # 0)
        : av \in {a}, bv \in {b} } : TRUE

RECURSIVE F32MulAcc(_, _, _, _, _)
F32MulAcc(am, bm, k, acc, sticky) ==
    CHOOSE res \in
      { IF k = 0 THEN <<accv, sv>>
        ELSE F32MulAcc(amv, bmv \div 64, k - 1,
                       (accv \div 64) + amv * (bmv % 64),
                       sv \/ accv % 64 # 0)
        : amv \in {am}, bmv \in {bm}, accv \in {acc}, sv \in {sticky} } : TRUE

\* a * b
F32Mul(a, b) ==
    CHOOSE res \in
      { IF av.m = 0 \/ bv.m = 0 THEN F32Zero
        ELSE LET p == F32MulAcc(av.m, bv.m \div 64, 3,
                                av.m * (bv.m % 64), FALSE)
             IN  F32Round(p[1], av.e + bv.e + 18, p[2])
        : av \in {a}, bv \in {b} } : TRUE

\* a + b
F32Add(a, b) ==
    CHOOSE res \in
      { IF av.m = 0 THEN bv
        ELSE IF bv.m = 0 THEN av
        ELSE LET hi == IF av.e >= bv.e THEN av ELSE bv
                 lo == IF av.e >= bv.e THEN bv ELSE av
                 d  == hi.e - lo.e
                 l8 == lo.m * 8
                 L  == IF d >= 27 THEN 0 ELSE l8 \div 2^d
                 st == IF d >= 27 THEN TRUE ELSE l8 % 2^d # 0
             IN  F32Round(hi.m * 8 + L, hi.e - 3, st)
        : av \in {a}, bv \in {b} } : TRUE

\* (int)floor(a)
F32Floor(a) ==
    CHOOSE res \in
      { IF av.e >= 0 THEN av.m * 2^(av.e)
        ELSE IF 0 - av.e >= 24 THEN 0
        ELSE av.m \div 2^(0 - av.e)
        : av \in {a} } : TRUE

\* reference.cpp:210, the range-local percent at offset off of a range.
RangePercent(off, size) ==
    F32Floor(F32Mul(F32Div(F32FromInt(off), F32FromInt(size)), F32FromInt(100)))

\* reference.cpp:160-163, the overall percent of module idx of n.
TotalPercent(idx, n, percent) ==
    LET fPercent      == F32Div(F32FromInt(percent), F32FromInt(100))
        fTotalPercent == F32Div(F32Add(F32FromInt(idx), fPercent), F32FromInt(n))
    IN  F32Floor(F32Mul(fTotalPercent, F32FromInt(100)))

(***************************************************************************)
(* The state.                                                              *)
(***************************************************************************)
VARIABLES
    mem,                \* the debuggee's small bytes: address -> opcode
    pc,                 \* "idle", "read", "sweep", "returned", "done"
    type, Address, Size, Silent,    \* the arguments of RefFind
    modList,            \* RefFind's modList (the loaded modules, in order)
    modI,               \* RefFind's loop index i over modList
    scanStart, scanSize,            \* RefFind's range
    initCallBack,       \* RefFind's initCallBack
    refcount,           \* refInfo.refcount
    refFindInRangeRet,  \* RefFind's refFindInRangeRet
    data,               \* RefFindInRange's snapshot of the range's bytes
    i,                  \* RefFindInRange's loop offset i
    scanAddr,           \* RefFindInRange's own scanStart, advanced per step
    attempts,           \* the calls of cp.Disassemble for the current range
    ret,                \* the value RefFind returned (-1: not returned)
    progress,           \* the values passed to GuiReferenceSetProgress
    taskProgress,       \* the calls of cbUpdateProgress: range index, percent
    reloads,            \* the calls of GuiReferenceReloadData
    cbNull,             \* the calls Callback(0, 0, &refInfo)
    cbReal,             \* the calls of Callback with a decoded instruction
    cbTrue,             \* those of them that returned true
    memReads,           \* the calls of MemRead: start, size, ok, and the
                        \* number of predicate calls made before it
    diag,               \* the messages printed by dprintf
    history,            \* the operations completed before this one
    castTop,            \* scanSize - i at reference.cpp:216: its bits above
                        \* the 32nd (0 in a 32-bit build),
    castHi,             \* its bits 16..31,
    castLo,             \* its bits 0..15
    disasmMaxSize       \* reference.cpp:216, int disasmMaxSize

vars == <<mem, pc, type, Address, Size, Silent, modList, modI, scanStart,
          scanSize, initCallBack, refcount, refFindInRangeRet, data, i,
          scanAddr, attempts, ret, progress, taskProgress, reloads, cbNull,
          cbReal,
          cbTrue, memReads, diag, history, castTop, castHi, castLo,
          disasmMaxSize>>

\* The variables of the evaluation of reference.cpp:216 on a wide word.
castVars == <<castTop, castHi, castLo, disasmMaxSize>>

\* What a call of RefFind leaves alone in RefFindInRange's frame.
calleeVars == <<data, i, scanAddr, attempts>>

InitProgram ==
    /\ mem \in [SmallAddrs -> Opcodes]
    /\ pc = "idle"
    /\ type = CURRENT_REGION /\ Address = 0 /\ Size = 0 /\ Silent = FALSE
    /\ modList = <<>> /\ modI = 0
    /\ scanStart = 0 /\ scanSize = 0
    /\ initCallBack = TRUE
    /\ refcount = 0 /\ refFindInRangeRet = 0
    /\ data = mem /\ i = 0 /\ scanAddr = 0 /\ attempts = 0
    /\ ret = -1
    /\ progress = <<>> /\ taskProgress = <<>> /\ reloads = 0
    /\ cbNull = 0 /\ cbReal = 0 /\ cbTrue = 0
    /\ memReads = <<>> /\ diag = <<>>
    /\ history = <<>>

Init ==
    /\ InitProgram
    /\ castTop = 0 /\ castHi = 0 /\ castLo = 1
    /\ disasmMaxSize = MAX_DISASM_BUFFER + 1

(***************************************************************************)
(* RefFind, up to its first call of RefFindInRange or its early return.    *)
(***************************************************************************)
\* The arguments are stored and the logs of the operation start empty.
Enter(t, a, s, sil, ml) ==
    /\ type' = t /\ Address' = a /\ Size' = s /\ Silent' = sil
    /\ modList' = ml /\ modI' = 0
    /\ refFindInRangeRet' = 0
    /\ progress' = <<>> /\ taskProgress' = <<>> /\ reloads' = 0
    /\ cbNull' = 0 /\ cbReal' = 0 /\ cbTrue' = 0
    /\ memReads' = <<>>
    /\ UNCHANGED <<mem, calleeVars, castVars>>

\* A failed lookup that prints its diagnostic and goes on to the scan.
ResolveFailsFallsThrough(sil, msg) ==
    /\ diag' = IF sil THEN <<>> ELSE <<msg>>
    /\ ret' = -1
    /\ pc' = "read"
    /\ UNCHANGED <<scanStart, scanSize, initCallBack, refcount>>

\* return 0 before any range is resolved, with the diagnostic msg.
ResolveFails(sil, msg) ==
    /\ diag' = IF sil THEN <<>> ELSE <<msg>>
    /\ ret' = 0
    /\ pc' = "done"
    /\ UNCHANGED <<scanStart, scanSize, initCallBack, refcount>>

\* The range is set and RefFindInRange is about to be called.
\* A resolution that would carry the match count of an earlier operation
\* over into this one.
ResolvedKeepsCount(start, size) ==
    /\ scanStart' = start
    /\ scanSize' = size
    /\ initCallBack' = TRUE
    /\ refcount' = refcount
    /\ diag' = <<>>
    /\ ret' = -1
    /\ pc' = "read"

Resolved(start, size) ==
    /\ scanStart' = start
    /\ scanSize' = size
    /\ initCallBack' = TRUE
    /\ refcount' = 0
    /\ diag' = <<>>
    /\ ret' = -1
    /\ pc' = "read"

\* reference.cpp:42-46, the range of a region request with a Size.
RegionScanSize(a, s, regionBase) ==
    LET maxsize == DuintSub(s, DuintSub(a, regionBase))
    IN  Min(s, maxsize)

\* type == CURRENT_REGION
RefFindRegion(a, s, sil) ==
    /\ Enter(CURRENT_REGION, a, s, sil, <<>>)
    /\ LET region     == MemFindBaseAddr(a)
           regionBase == region.base
           regionSize == region.size
       IN  IF regionBase = 0 \/ regionSize = 0
           THEN ResolveFails(sil, "Invalid memory page")
           ELSE IF s # 0
                THEN Resolved(a, RegionScanSize(a, s, regionBase))
                ELSE Resolved(regionBase, regionSize)

\* type == CURRENT_MODULE
RefFindModule(a, sil, ml) ==
    /\ Enter(CURRENT_MODULE, a, 0, sil, ml)
    /\ LET modInfo == ModInfoFromAddr(ml, a)
       IN  IF modInfo = <<>>
           THEN ResolveFails(sil, "Couldn't locate module")
           ELSE Resolved(modInfo[1].base, modInfo[1].size)

\* type == ALL_MODULES
RefFindAllModules(sil, ml) ==
    /\ Enter(ALL_MODULES, 0, 0, sil, ml)
    /\ IF Len(ml) = 0
       THEN ResolveFails(sil, "Couldn't get module list")
       ELSE Resolved(ml[1].base, ml[1].size)

CallRegion ==
    /\ pc = "idle"
    /\ \E a \in Addresses, s \in Sizes, sil \in BOOLEAN :
           RefFindRegion(a, s, sil)
    /\ UNCHANGED history

CallModule ==
    /\ pc = "idle"
    /\ \E a \in Addresses, sil \in BOOLEAN :
           \E ml \in ModListsFor(a) : RefFindModule(a, sil, ml)
    /\ UNCHANGED history

CallAllModules ==
    /\ pc = "idle"
    /\ \E sil \in BOOLEAN, ml \in ModLists : RefFindAllModules(sil, ml)
    /\ UNCHANGED history

(***************************************************************************)
(* RefFindInRange.                                                         *)
(***************************************************************************)
\* cbUpdateProgress(percent): the lambda RefFind passed for its scope.
UpdateProgress(percent) ==
    /\ taskProgress' = Append(taskProgress, [idx |-> modI, percent |-> percent])
    /\ progress' = Append(progress,
                          IF type = ALL_MODULES
                          THEN TotalPercent(modI, Len(modList), percent)
                          ELSE percent)

\* reference.cpp:189-200: the snapshot is read, and the predicate gets its
\* initialization call.
RefFindInRangeRead ==
    /\ pc = "read"
    /\ LET ok == MemRead(scanStart, scanSize) IN
       /\ memReads' = Append(memReads,
                             [start |-> scanStart, size |-> scanSize,
                              ok |-> ok, calls |-> cbNull + cbReal,
                              real |-> cbReal, count |-> refcount,
                              image |-> mem])
       /\ IF ok
          THEN /\ data' = mem
               /\ cbNull' = IF initCallBack THEN cbNull + 1 ELSE cbNull
               /\ i' = 0
               /\ scanAddr' = scanStart
               /\ attempts' = 0
               /\ pc' = "sweep"
               /\ UNCHANGED <<diag, refFindInRangeRet>>
          ELSE /\ diag' = IF Silent THEN diag
                          ELSE Append(diag, "Error reading memory")
               /\ refFindInRangeRet' = 0
               /\ pc' = "returned"
               /\ UNCHANGED <<data, cbNull, i, scanAddr, attempts>>
    /\ UNCHANGED <<castVars, mem, type, Address, Size, Silent, modList, modI, scanStart,
                   scanSize, initCallBack, refcount, ret, progress,
                   taskProgress, reloads, cbReal, cbTrue, history>>

\* (int)w of the word hi * 2^16 + lo (the bits above the 32nd are dropped).
IntCast(hi, lo) ==
    IF hi < IntHalf \div 2 THEN hi * IntHalf + lo
    ELSE (hi - IntHalf) * IntHalf + lo

\* A lookahead that would be clamped to the buffer only.
LookaheadUnclamped(hi, lo) == MAX_DISASM_BUFFER

\* reference.cpp:216, min(MAX_DISASM_BUFFER, (int)(scanSize - i)).
Lookahead(hi, lo) == Min(MAX_DISASM_BUFFER, IntCast(hi, lo))

\* reference.cpp:216, the lookahead handed to the decoder at offset off.
DisasmMaxSize(size, off) ==
    Lookahead((size - off) \div IntHalf, (size - off) % IntHalf)

\* A sweep that would decode the debuggee's memory as it is now.
DataByteLive(off) == MemByte(mem, scanStart + off)

\* data()[off]: the snapshot's byte at offset off of the range.
DataByte(off) == MemByte(data, scanStart + off)

\* A sweep that steps two bytes over a byte that does not decode.
DisasmLenSkipsTwo(decoded) == IF decoded # 0 THEN decoded ELSE 2

\* reference.cpp:217-232, disasmLen: the step after the decode attempt.
DisasmLen(decoded) == IF decoded # 0 THEN decoded ELSE 1

\* An address that would stay where it is after a byte that does not decode.
ScanStartAfterDecoded(addr, decoded) == addr + decoded

\* reference.cpp:234, scanStart += disasmLen.
ScanStartAfter(addr, decoded) == addr + DisasmLen(decoded)

\* reference.cpp:203-236: one iteration of the sweep.
RefFindInRangeStep ==
    /\ pc = "sweep"
    /\ i < scanSize
    /\ IF i % ProgressPeriod = 0
       THEN UpdateProgress(RangePercent(i, scanSize))
       ELSE UNCHANGED <<progress, taskProgress>>
    /\ LET decoded == Disassemble(DataByte(i), DisasmMaxSize(scanSize, i))
           matched == decoded # 0 /\ Callback(DataByte(i))
       IN  /\ cbReal' = IF decoded # 0 THEN cbReal + 1 ELSE cbReal
           /\ cbTrue' = IF matched THEN cbTrue + 1 ELSE cbTrue
           /\ refcount' = IF matched THEN refcount + 1 ELSE refcount
           /\ scanAddr' = ScanStartAfter(scanAddr, decoded)
           /\ attempts' = attempts + 1
           /\ i' = i + DisasmLen(decoded)
    /\ UNCHANGED <<castVars, mem, pc, type, Address, Size, Silent, modList, modI,
                   scanStart, scanSize, initCallBack, refFindInRangeRet, data,
                   ret, reloads, cbNull, memReads, diag, history>>

\* reference.cpp:238-239: the sweep is over.
RefFindInRangeEnd ==
    /\ pc = "sweep"
    /\ ~(i < scanSize)
    /\ UpdateProgress(100)
    /\ refFindInRangeRet' = refcount
    /\ pc' = "returned"
    /\ UNCHANGED <<castVars, mem, type, Address, Size, Silent, modList, modI, scanStart,
                   scanSize, initCallBack, refcount, data, i, scanAddr, attempts,
                   ret,
                   reloads, cbNull, cbReal, cbTrue, memReads, diag, history>>

(***************************************************************************)
(* RefFind, after RefFindInRange returned.                                 *)
(***************************************************************************)
\* reference.cpp:180-182 after n earlier reloads, returning count.
Finish(n, count) ==
    /\ progress' = Append(progress, 100)
    /\ reloads' = reloads + n + 1
    /\ refcount' = count
    /\ ret' = count
    /\ pc' = "done"

\* A return of the running count where the code returns the range's result.
ReturnCount(n) ==
    /\ reloads' = reloads + n
    /\ ret' = refcount
    /\ pc' = "done"
    /\ UNCHANGED <<progress, refcount>>

\* return refFindInRangeRet, which is 0, after n reloads.
ReturnZero(n) ==
    /\ reloads' = reloads + n
    /\ ret' = refFindInRangeRet
    /\ pc' = "done"
    /\ UNCHANGED <<progress, refcount>>

\* reference.cpp:70-75
RegionReturned ==
    /\ pc = "returned"
    /\ type = CURRENT_REGION
    /\ IF refFindInRangeRet = 0
       THEN ReturnZero(1)
       ELSE Finish(1, refcount + refFindInRangeRet)
    /\ UNCHANGED <<castVars, mem, type, Address, Size, Silent, modList, modI, scanStart,
                   scanSize, initCallBack, refFindInRangeRet, data, i,
                   scanAddr, attempts, taskProgress, cbNull, cbReal, cbTrue,
                   memReads,
                   diag, history>>

\* reference.cpp:118-121
ModuleReturned ==
    /\ pc = "returned"
    /\ type = CURRENT_MODULE
    /\ IF refFindInRangeRet = 0
       THEN ReturnZero(0)
       ELSE Finish(1, refcount)
    /\ UNCHANGED <<castVars, mem, type, Address, Size, Silent, modList, modI, scanStart,
                   scanSize, initCallBack, refFindInRangeRet, data, i,
                   scanAddr, attempts, taskProgress, cbNull, cbReal, cbTrue,
                   memReads,
                   diag, history>>

\* A loop that never clears initCallBack.
InitCallBackKept(idx, cur) == cur

\* reference.cpp:155-156, initCallBack at the top of iteration idx.
InitCallBackFor(idx, cur) == IF idx # 0 THEN FALSE ELSE cur

\* reference.cpp:173-177 and the loop header, 150-156
AllModulesReturned ==
    /\ pc = "returned"
    /\ type = ALL_MODULES
    /\ IF refFindInRangeRet = 0
       THEN /\ ReturnZero(0)
            /\ UNCHANGED <<modI, scanStart, scanSize, initCallBack>>
       ELSE IF modI + 1 < Len(modList)
            THEN /\ reloads' = reloads + 1
                 /\ modI' = modI + 1
                 /\ scanStart' = modList[modI + 2].base
                 /\ scanSize' = modList[modI + 2].size
                 /\ initCallBack' = InitCallBackFor(modI + 1, initCallBack)
                 /\ pc' = "read"
                 /\ UNCHANGED <<progress, refcount, ret>>
            ELSE /\ Finish(1, refcount)
                 /\ UNCHANGED <<modI, scanStart, scanSize, initCallBack>>
    /\ UNCHANGED <<castVars, mem, type, Address, Size, Silent, modList,
                   refFindInRangeRet, data, i, scanAddr, attempts,
                   taskProgress, cbNull,
                   cbReal, cbTrue, memReads, diag, history>>

Next ==
    \/ CallRegion
    \/ CallModule
    \/ CallAllModules
    \/ RefFindInRangeRead
    \/ RefFindInRangeStep
    \/ RefFindInRangeEnd
    \/ RegionReturned
    \/ ModuleReturned
    \/ AllModulesReturned

Spec == Init /\ [][Next]_vars

(***************************************************************************)
(* A session of two operations: the caller repeats its request over the    *)
(* same memory, and the module list may come back in another order.        *)
(***************************************************************************)
Again ==
    /\ pc = "done"
    /\ history = <<>>
    /\ history' = <<[ret |-> ret, modList |-> modList, mem |-> mem]>>
    /\ \/ type = CURRENT_REGION /\ RefFindRegion(Address, Size, Silent)
       \/ type = CURRENT_MODULE /\ RefFindModule(Address, Silent, modList)
       \/ /\ type = ALL_MODULES
          /\ \E ml \in Perms(modList) : RefFindAllModules(Silent, ml)

NextTwice == Next \/ Again

SpecTwice == Init /\ [][NextTwice]_vars

(***************************************************************************)
(* What the claims speak of.                                               *)
(***************************************************************************)
\* Line 180 was reached: the final overall progress was reported.
Finished == pc = "done" /\ Len(progress) = Len(taskProgress) + 1

\* No range was resolved for the request.
ResolutionFailed ==
    \/ type = CURRENT_REGION
         /\ ~ \E r \in Regions : r.size > 0 /\ InRange(Address, r.base, r.size)
    \/ type = CURRENT_MODULE
         /\ ~ \E k \in 1..Len(modList) :
                InRange(Address, modList[k].base, modList[k].size)
    \/ type = ALL_MODULES /\ Len(modList) = 0

\* Every MemRead of the operation so far succeeded.
ReadsSucceeded == \A k \in 1..Len(memReads) : memReads[k].ok

\* Every module of the list can be read.
ModulesReadable ==
    \A k \in 1..Len(modList) : MemRead(modList[k].base, modList[k].size)

\* The number of ranges of the operation.
RangeCount == IF type = ALL_MODULES THEN Len(modList) ELSE 1

(***************************************************************************)
(* C1: a region-scope request that resolves and whose read succeeds        *)
(* returns the number of decoded instructions of the range for which the   *)
(* predicate returned true.                                                *)
(***************************************************************************)
C1_RegionReturnsMatchCount ==
    (pc = "done" /\ type = CURRENT_REGION /\ memReads # <<>> /\ memReads[1].ok)
        => ret = cbTrue

(***************************************************************************)
(* C2: an all-modules request over a non-empty list of readable modules    *)
(* scans every module in enumeration order and returns the number of       *)
(* instructions, over all modules, for which the predicate returned true.  *)
(***************************************************************************)
C2_AllModulesScansAllAndSums ==
    (pc = "done" /\ type = ALL_MODULES /\ Len(modList) > 0 /\ ModulesReadable)
        => /\ Len(memReads) = Len(modList)
           /\ \A k \in 1..Len(modList) :
                  /\ memReads[k].start = modList[k].base
                  /\ memReads[k].size = modList[k].size
           /\ ret = cbTrue

(***************************************************************************)
(* C3: RefFind returns before the final progress report only when the      *)
(* scope did not resolve or a memory read failed; a range that was read    *)
(* never ends the operation, whatever its number of matches.               *)
(***************************************************************************)
C3_EarlyReturnOnlyOnError ==
    (pc = "done" /\ ~Finished)
        => \/ memReads = <<>> /\ ResolutionFailed
           \/ memReads # <<>> /\ ~memReads[Len(memReads)].ok

(***************************************************************************)
(* C4: a region-scope request with a non-zero Size scans from Address      *)
(* min(Size, regionSize - (Address - regionBase)) bytes, all of them       *)
(* inside the region that holds Address.                                   *)
(***************************************************************************)
C4_RegionSizeClamped ==
    (type = CURRENT_REGION /\ Size # 0 /\ memReads # <<>>)
        => \E r \in Regions :
              /\ InRange(Address, r.base, r.size)
              /\ memReads[1].start = Address
              /\ memReads[1].size = Min(Size, r.size - (Address - r.base))
              /\ memReads[1].start + memReads[1].size <= r.base + r.size

(***************************************************************************)
(* C5: the overall progress values of one operation never decrease, and    *)
(* the last one reported is 100 (stated for the operations in which the    *)
(* scope resolved and every read succeeded).                               *)
(***************************************************************************)
C5_ProgressMonotoneEndsAt100 ==
    /\ \A k \in 1..(Len(progress) - 1) : progress[k] <= progress[k + 1]
    /\ (pc = "done" /\ memReads # <<>> /\ ReadsSucceeded)
           => progress[Len(progress)] = 100

(***************************************************************************)
(* C6: in a sweep step whose decode fails at offset i nothing is called,   *)
(* counted or printed, the sweep goes on and its next offset is i + 1; a   *)
(* step whose decode succeeds passes the instruction to the predicate and  *)
(* its next offset is i plus the decoded length.                           *)
(***************************************************************************)
C6_DecodeFailureSkipsOneByte ==
    [][ (pc = "sweep" /\ i < scanSize) =>
          LET b         == MemByte(data, scanStart + i)
              lookahead == Min(MAX_DISASM_BUFFER, scanSize - i)
          IN  IF b = 0 \/ b > lookahead
              THEN /\ i' = i + 1
                   /\ pc' = "sweep"
                   /\ cbReal' = cbReal /\ cbNull' = cbNull
                   /\ cbTrue' = cbTrue /\ refcount' = refcount
                   /\ diag' = diag /\ ret' = ret
              ELSE /\ i' = i + b
                   /\ pc' = "sweep"
                   /\ cbReal' = cbReal + 1 ]_vars

\* A sweep that failed to decode at offset 0, skipped that byte, and then
\* passed the instruction at offset 1 to the predicate.
C6_Witness ==
    /\ pc = "sweep" /\ i = 2 /\ scanSize >= 2
    /\ MemByte(data, scanStart) = 0
    /\ MemByte(data, scanStart + 1) = 1
    /\ cbReal = 1

(***************************************************************************)
(* C7: a failed memory read ends the operation at once: no predicate call  *)
(* follows it, no later module is read, and RefFind returns 0, also when   *)
(* earlier modules of the list had matches.                                *)
(***************************************************************************)
C7_ReadFailureIsFatal ==
    \A k \in 1..Len(memReads) :
        ~memReads[k].ok =>
            /\ k = Len(memReads)
            /\ cbNull + cbReal = memReads[k].calls
            /\ pc \in {"returned", "done"}
            /\ refFindInRangeRet = 0
            /\ pc = "done" => (ret = 0 /\ ~Finished)

\* An all-modules operation that counted matches in its first module,
\* failed to read its second, and returned.
C7_Witness ==
    /\ pc = "done" /\ type = ALL_MODULES
    /\ Len(modList) = 3 /\ Len(memReads) = 2
    /\ memReads[1].ok /\ ~memReads[2].ok
    /\ cbTrue > 0 /\ ret = 0

(***************************************************************************)
(* C8: when the scope does not resolve, RefFind returns 0 without reading  *)
(* memory and without calling the predicate.                               *)
(***************************************************************************)
C8_ResolutionFailureReturnsZero ==
    (pc # "idle" /\ ResolutionFailed)
        => /\ pc = "done"
           /\ ret = 0
           /\ memReads = <<>>
           /\ cbNull = 0 /\ cbReal = 0

\* A module-scope request for an address that no loaded module holds.
C8_Witness ==
    /\ pc = "done" /\ type = CURRENT_MODULE /\ Address = 16
    /\ modList = <<>> /\ ret = 0

(***************************************************************************)
(* C9: every overall progress value reported for range idx of N at the     *)
(* range-local percent p is floor(((idx + p/100) / N) * 100).              *)
(***************************************************************************)
C9_OverallProgressFormula ==
    \A k \in 1..Len(taskProgress) :
        progress[k] =
            (taskProgress[k].idx * 100 + taskProgress[k].percent) \div RangeCount

(***************************************************************************)
(* The debuggee running beside the search: during the sweeps of an         *)
(* operation whose ranges are all shorter than a progress period, it may   *)
(* store any opcode in any of its bytes.                                   *)
(***************************************************************************)
DebuggeeWrite ==
    /\ pc = "sweep"
    /\ scanSize < ProgressPeriod
    /\ type = ALL_MODULES =>
           \A k \in 1..Len(modList) : modList[k].size < ProgressPeriod
    /\ \E a \in SmallAddrs, b \in Opcodes :
           /\ b # mem[a]
           /\ mem' = [mem EXCEPT ![a] = b]
    /\ UNCHANGED <<castVars, pc, type, Address, Size, Silent, modList, modI, scanStart,
                   scanSize, initCallBack, refcount, refFindInRangeRet, data,
                   i, scanAddr, attempts, ret, progress, taskProgress,
                   reloads, cbNull, cbReal, cbTrue, memReads, diag, history>>

NextWrites == Next \/ DebuggeeWrite

SpecWrites == Init /\ [][NextWrites]_vars

\* The search is scheduled until it returns: a thread that can take a step
\* takes one.
SpecFair == Init /\ [][Next]_vars /\ WF_vars(Next)

(***************************************************************************)
(* reference.cpp:216 alone, on the words scanSize - i that the model       *)
(* checker's integers do not hold.                                         *)
(***************************************************************************)
\* The largest low half tried below the buffer size and just above it.
MaxRem == 20

InitCast ==
    /\ InitProgram
    /\ castTop \in 0..1
    /\ castHi \in {0, 1, IntHalf \div 2 - 1, IntHalf \div 2, IntHalf - 1}
    /\ castLo \in (0..MaxRem) \cup {IntHalf - 1}
    /\ castTop + castHi + castLo > 0
    /\ disasmMaxSize = MAX_DISASM_BUFFER + 1

ComputeDisasmMaxSize ==
    /\ disasmMaxSize = MAX_DISASM_BUFFER + 1
    /\ disasmMaxSize' = Lookahead(castHi, castLo)
    /\ UNCHANGED <<mem, pc, type, Address, Size, Silent, modList, modI,
                   scanStart, scanSize, initCallBack, refcount,
                   refFindInRangeRet, data, i, scanAddr, attempts, ret,
                   progress, taskProgress, reloads, cbNull, cbReal, cbTrue,
                   memReads, diag, history, castTop, castHi, castLo>>

NextCast == ComputeDisasmMaxSize

SpecCast == InitCast /\ [][NextCast]_vars

(***************************************************************************)
(* C10: over unchanged memory, an all-modules request returns the same     *)
(* total whatever the order of the module list.                            *)
(***************************************************************************)
C10_ModuleOrderIrrelevant ==
    (pc = "done" /\ type = ALL_MODULES /\ history # <<>>
        /\ history[1].mem = mem /\ ModulesReadable)
        => ret = history[1].ret


(***************************************************************************)
(* C11: once the first memory read of an operation has succeeded, the      *)
(* predicate has been called with the null instruction exactly once; that  *)
(* call is made for the first range, before any call with a decoded        *)
(* instruction, and no later module adds another.                          *)
(***************************************************************************)
C11_NullCallOnceFirst ==
    /\ []((memReads # <<>> /\ memReads[1].ok) => cbNull = 1)
    /\ [][cbNull' # cbNull =>
            /\ cbNull = 0 /\ cbNull' = 1
            /\ cbReal = 0 /\ cbReal' = 0
            /\ modI = 0 /\ memReads = <<>>]_vars

\* An all-modules operation that is sweeping its third module after
\* instructions of earlier modules went to the predicate.
C11_Witness ==
    /\ type = ALL_MODULES /\ pc = "sweep" /\ modI = 2
    /\ cbReal > 0 /\ cbNull = 1


(***************************************************************************)
(* C12: a region-scope scan of a range in which no byte decodes makes one  *)
(* decode attempt at every offset, never calls the predicate with an       *)
(* instruction, returns 0, and still reports an overall progress of 100.   *)
(***************************************************************************)
\* No offset of the range being scanned decodes: its byte is invalid, or
\* its instruction is longer than the bytes left.
NoByteDecodes ==
    \A off \in 0..(scanSize - 1) :
        LET b == MemByte(data, scanStart + off)
        IN  b = 0 \/ b > scanSize - off

C12_UndecodableRegion ==
    (type = CURRENT_REGION /\ memReads # <<>> /\ memReads[1].ok
        /\ NoByteDecodes)
        => /\ cbReal = 0 /\ cbTrue = 0
           /\ i <= scanSize /\ attempts = i
           /\ pc \in {"returned", "done"} =>
                 /\ i = scanSize
                 /\ progress # <<>> /\ progress[Len(progress)] = 100
           /\ pc = "done" => ret = 0

\* The scan of the region [16,18), whose two bytes do not decode, returned.
C12_Witness ==
    /\ type = CURRENT_REGION /\ pc = "done" /\ scanStart = 16 /\ scanSize = 2
    /\ memReads # <<>> /\ memReads[1].ok
    /\ data[16] = 0 /\ data[17] = 0
    /\ attempts = 2 /\ cbReal = 0 /\ ret = 0
    /\ progress = <<0, 100>>


(***************************************************************************)
(* C13: a second RefFind with the same address, size, scope, predicate and *)
(* module list, over unchanged memory, returns the match count of the      *)
(* first.                                                                  *)
(***************************************************************************)
C13_SameRequestSameCount ==
    (pc = "done" /\ history # <<>>
        /\ history[1].mem = mem /\ history[1].modList = modList)
        => ret = history[1].ret

\* Both calls of an all-modules request over two modules returned a
\* positive count.
C13_Witness ==
    /\ pc = "done" /\ history # <<>>
    /\ history[1].mem = mem /\ history[1].modList = modList
    /\ type = ALL_MODULES /\ Len(modList) >= 2
    /\ ret > 0 /\ ret = history[1].ret


(***************************************************************************)
(* C14: when a range's sweep has returned, it has issued one range-local   *)
(* progress report for every multiple of 4096 below the range's size,      *)
(* wherever the instruction boundaries fell, and after them exactly one    *)
(* report of 100.                                                          *)
(***************************************************************************)
\* The range-local reports of the range being scanned.
LocalReports == SelectSeq(taskProgress, LAMBDA e : e.idx = modI)

\* The multiples of ProgressPeriod below size.
PeriodsBelow(size) == (size + (ProgressPeriod - 1)) \div ProgressPeriod

C14_ProgressEvery4096 ==
    (pc = "returned" /\ memReads # <<>> /\ memReads[Len(memReads)].ok)
        => /\ Len(LocalReports) = PeriodsBelow(scanSize) + 1
           /\ LocalReports[Len(LocalReports)].percent = 100
           /\ \A k \in 1..PeriodsBelow(scanSize) :
                  LocalReports[k].percent < 100


(***************************************************************************)
(* C15: when RefFind has returned and every range it scanned was read and  *)
(* swept to its end, it has requested one refresh of the result view per   *)
(* range scanned and one more at the very end: N + 1 refreshes for an      *)
(* operation whose N ranges all complete.                                  *)
(***************************************************************************)
C15_RefreshPerRangePlusOne ==
    (pc = "done" /\ memReads # <<>> /\ ReadsSucceeded)
        => /\ reloads = Len(memReads) + 1
           /\ Len(memReads) = RangeCount => reloads = RangeCount + 1


(***************************************************************************)
(* C16: each range is read once, whole, before its sweep, and the sweep    *)
(* decodes the bytes that read returned: whatever the debuggee stores in   *)
(* memory during the sweep, the decode attempts, the predicate calls and   *)
(* the range's match count are those of the memory as it was read.         *)
(***************************************************************************)
\* The MemRead of the range being scanned.
LastRead == memReads[Len(memReads)]

\* <<instructions decoded, matches>> of a sweep over image m of the range
\* [start, start + size), from offset off on.
RECURSIVE SweepCounts(_, _, _, _)
SweepCounts(m, start, size, off) ==
    IF off >= size THEN <<0, 0>>
    ELSE LET b       == MemByte(m, start + off)
             decoded == Disassemble(b, DisasmMaxSize(size, off))
             rest    == SweepCounts(m, start, size, off + DisasmLen(decoded))
         IN  <<rest[1] + (IF decoded # 0 THEN 1 ELSE 0),
               rest[2] + (IF decoded # 0 /\ Callback(b) THEN 1 ELSE 0)>>

C16_SweepDecodesSnapshot ==
    /\ [](pc = "sweep" =>
            /\ Len(memReads) = modI + 1
            /\ LastRead.ok
            /\ LastRead.start = scanStart /\ LastRead.size = scanSize
            /\ data = LastRead.image)
    /\ []((pc = "returned" /\ memReads # <<>> /\ LastRead.ok) =>
            LET c == SweepCounts(LastRead.image, scanStart, scanSize, 0)
            IN  /\ cbReal = LastRead.real + c[1]
                /\ refFindInRangeRet = LastRead.count + c[2])
    /\ [][attempts' = attempts + 1 =>
            /\ pc = "sweep" /\ memReads' = memReads /\ data' = data
            /\ LET b == MemByte(LastRead.image, scanStart + i)
                   decoded == Disassemble(b, DisasmMaxSize(scanSize, i))
               IN  /\ cbReal' = cbReal + (IF decoded # 0 THEN 1 ELSE 0)
                   /\ cbTrue' = cbTrue
                                  + (IF decoded # 0 /\ Callback(b)
                                     THEN 1 ELSE 0)]_vars

\* A range's sweep returned its matches although the debuggee has, since
\* the read, changed the range so that a sweep of it would count otherwise.
C16_Witness ==
    /\ pc = "returned" /\ memReads # <<>> /\ LastRead.ok
    /\ refFindInRangeRet > 0
    /\ SweepCounts(mem, scanStart, scanSize, 0)
         # SweepCounts(LastRead.image, scanStart, scanSize, 0)


(***************************************************************************)
(* C17: the lookahead computed for a remaining byte count scanSize - i of  *)
(* at least 1 is min(MAX_DISASM_BUFFER, scanSize - i): at least 1 and at   *)
(* most the bytes remaining, also when the count does not fit an int.      *)
(***************************************************************************)
C17_LookaheadIsMinOfRemaining ==
    disasmMaxSize # MAX_DISASM_BUFFER + 1
        => /\ disasmMaxSize =
                  (IF castTop > 0 \/ castHi > 0 \/ castLo >= MAX_DISASM_BUFFER
                   THEN MAX_DISASM_BUFFER ELSE castLo)
           /\ disasmMaxSize >= 1
           /\ castTop = 0 /\ castHi = 0 => disasmMaxSize <= castLo


(***************************************************************************)
(* C18: every sweep ends.  Each iteration moves the offset forward by at   *)
(* least one byte and never past the range's size, the offset equals the   *)
(* size when the loop is left, and a sweep that has started returns.       *)
(***************************************************************************)
C18_SweepTerminates ==
    /\ [](pc = "sweep" => i <= scanSize)
    /\ []((pc = "returned" /\ memReads # <<>> /\ LastRead.ok)
            => i = scanSize)
    /\ [][attempts' = attempts + 1 =>
            /\ i < scanSize
            /\ i' >= i + 1 /\ i' <= scanSize
            /\ i' - i <= DisasmMaxSize(scanSize, i)]_vars
    /\ (pc = "sweep" ~> pc = "returned")

\* A sweep left its loop after an instruction that ended with the range.
C18_Witness ==
    /\ pc = "returned" /\ memReads # <<>> /\ LastRead.ok
    /\ scanSize = 2 /\ i = scanSize /\ attempts = 1
    /\ DataByte(0) = 2


(***************************************************************************)
(* C19: throughout a sweep the address given to the decoder is the range's *)
(* start plus the offset into the snapshot; each iteration, whether its    *)
(* byte decoded or not, advances the address and the offset by the same    *)
(* step.                                                                   *)
(***************************************************************************)
C19_AddressFollowsOffset ==
    /\ [](pc = "sweep" => scanAddr = scanStart + i)
    /\ [][attempts' = attempts + 1 =>
            /\ scanAddr' - scanAddr = i' - i
            /\ scanAddr = LastRead.start + i]_vars

\* A sweep in which one byte decoded and another did not, about to hand the
\* decoder the next address.
C19_Witness ==
    /\ pc = "sweep" /\ i < scanSize
    /\ cbReal >= 1 /\ attempts > cbReal
    /\ scanAddr = scanStart + i /\ scanAddr > scanStart

====
